---- MODULE Spec2Model ----
(***************************************************************************)
(* Model of go-concurrency-perf (src/main.go): throughputBenchmark sweeps  *)
(* a list of concurrency limits; runBenchmark runs a serial baseline, then *)
(* admits `iterations` goroutines through a weighted semaphore, collects   *)
(* their WorkResults from a buffered channel and builds a BenchmarkResult. *)
(*                                                                         *)
(* Wall-clock readings are inputs of the environment: the elapsed time of  *)
(* one doWork call is the sum of its slice durations plus a jitter drawn   *)
(* from 0..MaxJitter.  The float metrics derived from wall-clock totals    *)
(* (ThroughputRps, Speedup, CpuUtilization) are not part of the state.     *)
(***************************************************************************)
EXTENDS Integers, Sequences, FiniteSets, TLC

\* ---------------------------------------------------------------- bounds
MaxLimit == 2         \* largest concurrency limit
MaxIterations == 2    \* largest iterations argument
MaxBaseline == 2      \* largest baselineIterations argument
MaxSplits == 1        \* largest splits argument
MaxJitter == 1        \* largest scheduling jitter of one request, in ns
MaxLatencies == 3     \* longest latency list a percentile is asked of
MaxLatency == 3       \* largest latency in such a list, in ns

\* ------------------------------------------------------ program constants
Millisecond == 1000 * 1000            \* time.Millisecond, in nanoseconds
WorkTime == 5 * Millisecond
NetworkTime == 55 * Millisecond

VARIABLES
    limits,              \* the list throughputBenchmark ranges over
    splits,              \* runBenchmark arguments, the same for every run
    baselineIterations,
    iterations,
    pc,                  \* position of the main goroutine
    idx,                 \* number of list elements the sweep has taken
    results,             \* throughputBenchmark's results slice
    plotted,             \* what plotThroughput/plotLatency were handed
    bx,                  \* baseline loop variable
    bw,                  \* the baseline doWork call in progress
    x,                   \* launch loop variable
    sems,                \* one semaphore per run: [size, cur]
    chans,               \* one channel per run: [cap, buf, closed]
    tasks,               \* live goroutines launched at line 94
    responseTimesMs,
    longestRequest,
    received,            \* history: the WorkResults received, in order
    start,               \* which reading the variable `start` holds
    totalDuration,       \* history: what was collected when totalDuration was read
    reported,            \* what outputBenchmarkResult has printed, per result
    query,               \* a call of ResponseTimesPercentile: receiver and pct
    answer               \* what that call returned to its caller

vars == <<limits, splits, baselineIterations, iterations, pc, idx, results,
          plotted, bx, bw, x, sems, chans, tasks, responseTimesMs,
          longestRequest, received, start, totalDuration, reported, query,
          answer>>

\* One call of ResponseTimesPercentile from outside the sweep.
call == <<query, answer>>

inputs == <<limits, splits, baselineIterations, iterations>>

\* ------------------------------------------------------------ doWork
DivPanic == 0 - 1

\* Go integer division; a zero divisor panics.
Div(a, b) == IF b = 0 THEN DivPanic ELSE a \div b

\* One trace line: "[ts] name: +/- dur kind".
Line(name, kind, sign, dur) == [name |-> name, kind |-> kind, sign |-> sign, dur |-> dur]

doCpuWork(workTime, name, sb) ==
    sb \o <<Line(name, "cpu", "+", workTime), Line(name, "cpu", "-", workTime)>>

doNetworkWork(networkTime, name, sb) ==
    sb \o <<Line(name, "net", "+", networkTime), Line(name, "net", "-", networkTime)>>

\* The loop condition of doWork (line 48).
LoopCondShort(i, s) == i < s - 1

LoopCondInclusive(i, s) == i <= s

LoopCond(i, s) == i < s

\* A doWork call about to execute its first statement, writing to sb.
NewWork(sb) == [pc |-> "cpu0", i |-> 0, sb |-> sb, spent |-> 0]

\* One phase of doWork; w.pc = "ret" when only the return is left.
doWork(w, s, name) ==
    CASE w.pc = "cpu0" ->
           LET d == Div(WorkTime, s + 1) IN
           IF d = DivPanic THEN [w EXCEPT !.pc = "panic"]
           ELSE [w EXCEPT !.sb = doCpuWork(d, name, w.sb),
                          !.spent = w.spent + d,
                          !.pc = IF LoopCond(0, s) THEN "net" ELSE "ret"]
      [] w.pc = "net" ->
           LET d == Div(NetworkTime, s) IN
           IF d = DivPanic THEN [w EXCEPT !.pc = "panic"]
           ELSE [w EXCEPT !.sb = doNetworkWork(d, name, w.sb),
                          !.spent = w.spent + d,
                          !.pc = "cpu"]
      [] w.pc = "cpu" ->
           LET d == Div(WorkTime, s + 1) IN
           IF d = DivPanic THEN [w EXCEPT !.pc = "panic"]
           ELSE [w EXCEPT !.sb = doCpuWork(d, name, w.sb),
                          !.spent = w.spent + d,
                          !.i = w.i + 1,
                          !.pc = IF LoopCond(w.i + 1, s) THEN "net" ELSE "ret"]

\* ------------------------------------------------------------ values
NoWork == [pc |-> "none", i |-> 0, sb |-> <<>>, spent |-> 0]

\* The zero WorkResult (var longestRequest WorkResult).
ZeroResult == [timeTaken |-> 0, output |-> <<>>]

\* float64(result.timeTaken)/float64(time.Millisecond), as a fraction.
ToMs(d) == [num |-> d, den |-> Millisecond]

NoDuration == [taken |-> FALSE, collected |-> 0, buffered |-> 0]

\* ------------------------------------------------------------ percentiles
\* math.NaN(), as the fraction 0/0.
NaN == [num |-> 0, den |-> 0]

\* sortedCopy of stats: the values in non-decreasing order; entry k is the
\* value with fewer than k smaller entries and at least k entries not larger.
sortedCopy(input) ==
    LET Below(v) == Cardinality({j \in 1..Len(input) : input[j].num < v.num})
        UpTo(v) == Cardinality({j \in 1..Len(input) : input[j].num <= v.num})
    IN [k \in 1..Len(input) |->
           CHOOSE v \in {input[j] : j \in 1..Len(input)} : Below(v) < k /\ k <= UpTo(v)]

\* stats.Mean of two values of one denominator.
Mean(a, b) == [num |-> a.num + b.num, den |-> 2 * a.den]

\* stats.Percentile(input, percent) for a whole percent: the value and the
\* error.  index = percent/100 * len is kept as percent * len, in hundredths;
\* the arithmetic is exact, float rounding is left out.
Percentile(input, percent) ==
    LET length == Len(input) IN
    IF length = 0 THEN [val |-> NaN, err |-> "EmptyInputErr"]
    ELSE IF length = 1 THEN [val |-> input[1], err |-> "nil"]
    ELSE IF percent <= 0 \/ percent > 100 THEN [val |-> NaN, err |-> "BoundsErr"]
    ELSE LET c == sortedCopy(input)
             index == percent * length
             i == index \div 100
         IN IF index % 100 = 0 THEN [val |-> c[i], err |-> "nil"]
            ELSE IF index > 100 THEN [val |-> Mean(c[i], c[i + 1]), err |-> "nil"]
            ELSE [val |-> NaN, err |-> "BoundsErr"]

\* BenchmarkResult.ResponseTimesPercentile (lines 67-70): the error of
\* stats.Percentile is discarded, the caller receives the value alone.
ResponseTimesPercentile(b, pct) ==
    [val |-> Percentile(b.ResponseTimesMs, pct).val, err |-> "nil"]

\* The percentiles outputBenchmarkResult prints (lines 140-142).
ReportedPercentiles == {50, 95, 99}

\* What outputBenchmarkResult prints of a result (lines 137-142).
outputBenchmarkResult(result) ==
    [NumCoroutines |-> result.NumCoroutines,
     Iterations |-> result.Iterations,
     P50 |-> ResponseTimesPercentile(result, 50).val,
     P95 |-> ResponseTimesPercentile(result, 95).val,
     P99 |-> ResponseTimesPercentile(result, 99).val]

NoQuery == [asked |-> FALSE, b |-> <<>>, pct |-> 0]
NoAnswer == [given |-> FALSE, val |-> NaN, err |-> "nil"]

Terminal == {"exit", "panic", "fatal"}
Running == pc \notin Terminal

\* ------------------------------------------------------------ Init
\* The first limits of the list throughputBenchmark sweeps (line 169).
SweepLimits == <<1, 3>>

\* runBenchmark called once, with arbitrary arguments.
RunArgs ==
    /\ limits \in {<<l>> : l \in 0..MaxLimit}
    /\ iterations \in -1..MaxIterations
    /\ splits \in 0..MaxSplits
    /\ baselineIterations \in 0..MaxBaseline

\* A list of limits whose second run cannot get a permit: the list is a
\* literal in throughputBenchmark, runBenchmark accepts any limit.
StuckLimits == <<1, 0>>

\* The sweep: the same arguments for every limit (lines 170-173).
SweepArgs ==
    /\ limits \in {SweepLimits, StuckLimits}
    /\ iterations \in 1..MaxIterations
    /\ splits = MaxSplits
    /\ baselineIterations = MaxBaseline

\* The program before main's first statement.
Idle ==
    /\ pc = "sweep"
    /\ idx = 0
    /\ results = <<>>
    /\ plotted = <<>>
    /\ bx = 0
    /\ bw = NoWork
    /\ x = 0
    /\ sems = <<>>
    /\ chans = <<>>
    /\ tasks = {}
    /\ responseTimesMs = <<>>
    /\ longestRequest = ZeroResult
    /\ received = <<>>
    /\ start = "unset"
    /\ totalDuration = NoDuration
    /\ reported = <<>>

\* The state before main's first statement: no percentile is asked for.
Start ==
    /\ Idle
    /\ query = NoQuery
    /\ answer = NoAnswer

Init == (RunArgs \/ SweepArgs) /\ Start

RunInit == RunArgs /\ Start

\* ------------------------------------------------------------ a percentile call
\* Latency lists of up to MaxLatencies entries, in milliseconds.
Latencies ==
    UNION {[1..k -> {ToMs(d) : d \in 1..MaxLatency}] : k \in 0..MaxLatencies}

\* The percentiles asked for: the reported ones and the two ends.
Pcts == ReportedPercentiles \cup {0, 100}

\* A BenchmarkResult with the given latency list (lines 55-65).
ResultOf(rt) ==
    [WorkTime |-> WorkTime, NetworkTime |-> NetworkTime,
     Iterations |-> Len(rt), NumCoroutines |-> 1,
     ResponseTimesMs |-> rt, LongestRequest |-> ZeroResult]

\* A caller is about to ask a percentile of some BenchmarkResult.
PctInit ==
    /\ SweepArgs
    /\ limits = SweepLimits
    /\ Idle
    /\ query \in {[asked |-> TRUE, b |-> ResultOf(rt), pct |-> p] :
                      rt \in Latencies, p \in Pcts}
    /\ answer = NoAnswer

\* b.ResponseTimesPercentile(pct) is called and returns (lines 67-70).
Ask ==
    /\ query.asked
    /\ ~answer.given
    /\ answer' = [given |-> TRUE] @@ ResponseTimesPercentile(query.b, query.pct)
    /\ UNCHANGED <<inputs, query, reported, pc, idx, results, plotted, bx, bw,
                   x, sems, chans, tasks, responseTimesMs, longestRequest,
                   received, start, totalDuration>>

PctNext == Ask

PctSpec == PctInit /\ [][PctNext]_vars

\* ------------------------------------------------------------ the sweep
\* throughputBenchmark takes the next limit and calls runBenchmark, which
\* reads the clock for the baseline (lines 169-173, 73-77).
SweepNext ==
    /\ pc = "sweep"
    /\ idx < Len(limits)
    /\ idx' = idx + 1
    /\ start' = "baseline"
    /\ bx' = 0
    /\ bw' = NoWork
    /\ pc' = "baseline"
    /\ UNCHANGED <<inputs, call, reported, results, plotted, x, sems, chans, tasks,
                   responseTimesMs, longestRequest, received, totalDuration>>

\* The range is exhausted: the series goes to the plots (lines 178-179).
SweepDone ==
    /\ pc = "sweep"
    /\ idx >= Len(limits)
    /\ plotted' = results
    /\ pc' = "exit"
    /\ UNCHANGED <<inputs, call, reported, idx, results, bx, bw, x, sems, chans, tasks,
                   responseTimesMs, longestRequest, received, start, totalDuration>>

\* ------------------------------------------------------------ baseline
\* The condition of the baseline loop (line 78).
BaselineLoopShort(v) == v < baselineIterations - 1

BaselineLoopCond(v) == v < baselineIterations

\* The baseline loop calls doWork for request bx (lines 78-79).
BaselineCall ==
    /\ pc = "baseline"
    /\ BaselineLoopCond(bx)
    /\ bw' = NewWork(bw.sb)
    /\ pc' = "bwork"
    /\ UNCHANGED <<inputs, call, reported, idx, results, plotted, bx, x, sems, chans, tasks,
                   responseTimesMs, longestRequest, received, start, totalDuration>>

\* One phase of the baseline request, on the main goroutine.
BaselinePhase ==
    /\ pc = "bwork"
    /\ bw.pc \notin {"ret", "none"}
    /\ bw' = doWork(bw, splits, bx)
    /\ pc' = IF bw'.pc = "panic" THEN "panic" ELSE "bwork"
    /\ UNCHANGED <<inputs, call, reported, idx, results, plotted, bx, x, sems, chans, tasks,
                   responseTimesMs, longestRequest, received, start, totalDuration>>

\* doWork returns; its elapsed time is discarded (line 79).
BaselineReturn ==
    /\ pc = "bwork"
    /\ bw.pc = "ret"
    /\ bw' = [bw EXCEPT !.pc = "none"]
    /\ bx' = bx + 1
    /\ pc' = "baseline"
    /\ UNCHANGED <<inputs, call, reported, idx, results, plotted, x, sems, chans, tasks,
                   responseTimesMs, longestRequest, received, start, totalDuration>>

\* Where the launch loop goes with loop variable v (line 89).
LaunchLoop(v) == IF v < iterations THEN "acquire" ELSE "collect"

\* A channel whose buffer holds one result less than n.
MakeChanShort(n) == [cap |-> n - 1, buf |-> <<>>, closed |-> FALSE]

\* make(chan WorkResult, n) for n >= 0 (line 85).
MakeChan(n) == [cap |-> n, buf |-> <<>>, closed |-> FALSE]

\* The baseline loop ends; the concurrent phase is set up (lines 81-88, 105-106).
\* make(chan, n) panics for a negative n.
Setup ==
    /\ pc = "baseline"
    /\ ~BaselineLoopCond(bx)
    /\ IF iterations < 0
       THEN /\ pc' = "panic"
            /\ UNCHANGED <<start, chans, sems, x, responseTimesMs,
                           longestRequest, received, totalDuration>>
       ELSE /\ start' = "bench"
            /\ chans' = Append(chans, MakeChan(iterations))
            /\ sems' = Append(sems, [size |-> limits[idx], cur |-> 0])
            /\ x' = 0
            /\ responseTimesMs' = <<>>
            /\ longestRequest' = ZeroResult
            /\ received' = <<>>
            /\ totalDuration' = NoDuration
            /\ pc' = LaunchLoop(0)
    /\ UNCHANGED <<inputs, call, reported, idx, results, plotted, bx, bw, tasks>>

\* ------------------------------------------------------------ admission
\* semaphore.Weighted.Acquire(ctx, 1) can return when a permit is free.
CanAcquireLoose(sem) == sem.cur <= sem.size

CanAcquire(sem) == sem.cur + 1 <= sem.size

\* sem.Acquire returns nil (lines 90-93); it blocks while no permit is free,
\* and the background context is never cancelled.
Acquire ==
    /\ pc = "acquire"
    /\ CanAcquire(sems[idx])
    /\ sems' = [sems EXCEPT ![idx].cur = @ + 1]
    /\ pc' = "go"
    /\ UNCHANGED <<inputs, call, reported, idx, results, plotted, bx, bw, x, chans, tasks,
                   responseTimesMs, longestRequest, received, start, totalDuration>>

\* The go statement and the loop increment (lines 94, 102, 89).
Go ==
    /\ pc = "go"
    /\ tasks' = tasks \cup {[run |-> idx, x |-> x, pc |-> "work", w |-> NewWork(<<>>),
                             timeTaken |-> 0]}
    /\ x' = x + 1
    /\ pc' = LaunchLoop(x + 1)
    /\ UNCHANGED <<inputs, call, reported, idx, results, plotted, bx, bw, sems, chans,
                   responseTimesMs, longestRequest, received, start, totalDuration>>

\* ------------------------------------------------------------ goroutines
Replace(t, u) == (tasks \ {t}) \cup {u}

\* One phase of the request of goroutine t (line 96).
TaskPhase(t) ==
    /\ Running
    /\ t.pc = "work"
    /\ t.w.pc # "ret"
    /\ LET w == doWork(t.w, splits, t.x) IN
       /\ tasks' = Replace(t, [t EXCEPT !.w = w])
       /\ pc' = IF w.pc = "panic" THEN "panic" ELSE pc
    /\ UNCHANGED <<inputs, call, reported, idx, results, plotted, bx, bw, x, sems, chans,
                   responseTimesMs, longestRequest, received, start, totalDuration>>

\* doWork returns time.Since(start): the slices plus jitter j (lines 52, 96).
TaskReturn(t, j) ==
    /\ Running
    /\ t.pc = "work"
    /\ t.w.pc = "ret"
    /\ tasks' = Replace(t, [t EXCEPT !.pc = "send", !.timeTaken = t.w.spent + j])
    /\ UNCHANGED <<inputs, call, reported, pc, idx, results, plotted, bx, bw, x, sems, chans,
                   responseTimesMs, longestRequest, received, start, totalDuration>>

\* The goroutine sends its result twice.
TaskSendTwice(t) ==
    /\ Running
    /\ t.pc = "send"
    /\ LET c == chans[t.run]
           result == [timeTaken |-> t.timeTaken, output |-> t.w.sb] IN
       IF c.closed
       THEN /\ pc' = "panic"
            /\ UNCHANGED <<chans, tasks>>
       ELSE /\ Len(c.buf) < c.cap
            /\ chans' = [chans EXCEPT ![t.run].buf = Append(Append(@, result), result)]
            /\ tasks' = Replace(t, [t EXCEPT !.pc = "release"])
            /\ pc' = pc
    /\ UNCHANGED <<inputs, call, reported, idx, results, plotted, bx, bw, x, sems,
                   responseTimesMs, longestRequest, received, start, totalDuration>>

\* c <- WorkResult{...} (lines 97-100): blocks while the buffer is full,
\* panics on a closed channel.
TaskSend(t) ==
    /\ Running
    /\ t.pc = "send"
    /\ LET c == chans[t.run] IN
       IF c.closed
       THEN /\ pc' = "panic"
            /\ UNCHANGED <<chans, tasks>>
       ELSE /\ Len(c.buf) < c.cap
            /\ chans' = [chans EXCEPT ![t.run].buf =
                            Append(@, [timeTaken |-> t.timeTaken, output |-> t.w.sb])]
            /\ tasks' = Replace(t, [t EXCEPT !.pc = "release"])
            /\ pc' = pc
    /\ UNCHANGED <<inputs, call, reported, idx, results, plotted, bx, bw, x, sems,
                   responseTimesMs, longestRequest, received, start, totalDuration>>

\* The goroutine ends without giving its permit back.
TaskReleaseLeak(t) ==
    /\ Running
    /\ t.pc = "release"
    /\ tasks' = tasks \ {t}
    /\ UNCHANGED <<inputs, call, reported, pc, idx, results, plotted, bx, bw, x, sems, chans,
                   responseTimesMs, longestRequest, received, start, totalDuration>>

\* The goroutine gives back two permits.
TaskReleaseTwice(t) ==
    /\ Running
    /\ t.pc = "release"
    /\ IF sems[t.run].cur - 2 < 0
       THEN /\ pc' = "panic"
            /\ UNCHANGED <<sems, tasks>>
       ELSE /\ sems' = [sems EXCEPT ![t.run].cur = @ - 2]
            /\ tasks' = tasks \ {t}
            /\ pc' = pc
    /\ UNCHANGED <<inputs, call, reported, idx, results, plotted, bx, bw, x, chans,
                   responseTimesMs, longestRequest, received, start, totalDuration>>

\* sem.Release(1), after which the goroutine ends (lines 101-102).
\* Releasing more than is held panics.
TaskRelease(t) ==
    /\ Running
    /\ t.pc = "release"
    /\ IF sems[t.run].cur - 1 < 0
       THEN /\ pc' = "panic"
            /\ UNCHANGED <<sems, tasks>>
       ELSE /\ sems' = [sems EXCEPT ![t.run].cur = @ - 1]
            /\ tasks' = tasks \ {t}
            /\ pc' = pc
    /\ UNCHANGED <<inputs, call, reported, idx, results, plotted, bx, bw, x, chans,
                   responseTimesMs, longestRequest, received, start, totalDuration>>

\* ------------------------------------------------------------ collection
\* result.timeTaken > longestRequest.timeTaken (line 108).
IsLongerOrEqual(result, longest) == result.timeTaken >= longest.timeTaken

IsLonger(result, longest) == result.timeTaken > longest.timeTaken

\* len(responseTimesMs) == iterations (line 112).
ShouldCloseEarly(n) == n >= iterations - 1

ShouldCloseFirst(n) == n >= 1

ShouldClose(n) == n = iterations

\* One iteration of `for result := range c` (lines 107-115).
\* Closing a closed channel panics.
Collect ==
    /\ pc = "collect"
    /\ Len(chans[idx].buf) > 0
    /\ LET result == Head(chans[idx].buf)
           times == Append(responseTimesMs, ToMs(result.timeTaken))
       IN
       /\ longestRequest' = IF IsLonger(result, longestRequest) THEN result
                            ELSE longestRequest
       /\ responseTimesMs' = times
       /\ received' = Append(received, result)
       /\ IF ShouldClose(Len(times))
          THEN IF chans[idx].closed
               THEN /\ pc' = "panic"
                    /\ chans' = [chans EXCEPT ![idx].buf = Tail(@)]
               ELSE /\ pc' = "collect"
                    /\ chans' = [chans EXCEPT ![idx].buf = Tail(@), ![idx].closed = TRUE]
          ELSE /\ pc' = "collect"
               /\ chans' = [chans EXCEPT ![idx].buf = Tail(@)]
    /\ UNCHANGED <<inputs, call, reported, idx, results, plotted, bx, bw, x, sems, tasks,
                   start, totalDuration>>

\* The loop ends as soon as the buffer is empty, closed or not.
CollectDoneOnEmpty ==
    /\ pc = "collect"
    /\ Len(chans[idx].buf) = 0
    /\ totalDuration' = [taken |-> TRUE, collected |-> Len(responseTimesMs),
                         buffered |-> Len(chans[idx].buf)]
    /\ pc' = "return"
    /\ UNCHANGED <<inputs, call, reported, idx, results, plotted, bx, bw, x, sems, chans, tasks,
                   responseTimesMs, longestRequest, received, start>>

\* The range loop ends on a closed, drained channel; totalDuration is
\* read (lines 115-121).
CollectDone ==
    /\ pc = "collect"
    /\ chans[idx].closed
    /\ Len(chans[idx].buf) = 0
    /\ totalDuration' = [taken |-> TRUE, collected |-> Len(responseTimesMs),
                         buffered |-> Len(chans[idx].buf)]
    /\ pc' = "return"
    /\ UNCHANGED <<inputs, call, reported, idx, results, plotted, bx, bw, x, sems, chans, tasks,
                   responseTimesMs, longestRequest, received, start>>

\* The BenchmarkResult of the run (lines 123-133), without the metrics
\* derived from wall-clock totals.
BenchmarkResult ==
    [WorkTime |-> WorkTime,
     NetworkTime |-> NetworkTime,
     Iterations |-> iterations,
     NumCoroutines |-> limits[idx],
     ResponseTimesMs |-> responseTimesMs,
     LongestRequest |-> longestRequest.output]

\* The result is put in front of the series instead of behind it.
ReturnPrepend ==
    /\ pc = "return"
    /\ results' = <<BenchmarkResult>> \o results
    /\ reported' = Append(reported, outputBenchmarkResult(BenchmarkResult))
    /\ pc' = "sweep"
    /\ UNCHANGED <<inputs, call, idx, plotted, bx, bw, x, sems, chans, tasks,
                   responseTimesMs, longestRequest, received, start, totalDuration>>

\* runBenchmark returns; the result is printed and appended (lines 123-133,
\* 174-175).
Return ==
    /\ pc = "return"
    /\ results' = Append(results, BenchmarkResult)
    /\ reported' = Append(reported, outputBenchmarkResult(BenchmarkResult))
    /\ pc' = "sweep"
    /\ UNCHANGED <<inputs, call, idx, plotted, bx, bw, x, sems, chans, tasks,
                   responseTimesMs, longestRequest, received, start, totalDuration>>

\* ------------------------------------------------------------ runtime
\* A goroutine that can take a step.
Runnable(t) ==
    \/ t.pc \in {"work", "release"}
    \/ t.pc = "send" /\ (chans[t.run].closed \/ Len(chans[t.run].buf) < chans[t.run].cap)

\* The main goroutine waits for something only another goroutine can do.
MainBlocked ==
    \/ pc = "acquire" /\ ~CanAcquire(sems[idx])
    \/ pc = "collect" /\ Len(chans[idx].buf) = 0 /\ ~chans[idx].closed

\* The Go runtime ends the process when every goroutine is asleep
\* ("all goroutines are asleep - deadlock!").
Deadlock ==
    /\ MainBlocked
    /\ \A t \in tasks : ~Runnable(t)
    /\ pc' = "fatal"
    /\ UNCHANGED <<inputs, call, reported, idx, results, plotted, bx, bw, x, sems, chans, tasks,
                   responseTimesMs, longestRequest, received, start, totalDuration>>

Jitters == 0..MaxJitter

MainNext ==
    \/ SweepNext
    \/ SweepDone
    \/ BaselineCall
    \/ BaselinePhase
    \/ BaselineReturn
    \/ Setup
    \/ Acquire
    \/ Go
    \/ Collect
    \/ CollectDone
    \/ Return

TaskNext ==
    \/ \E t \in tasks : TaskPhase(t)
    \/ \E t \in tasks : \E j \in Jitters : TaskReturn(t, j)
    \/ \E t \in tasks : TaskSend(t)
    \/ \E t \in tasks : TaskRelease(t)

Next ==
    \/ MainNext
    \/ TaskNext
    \/ Deadlock

Spec == Init /\ [][Next]_vars

\* The Go scheduler runs the main goroutine when it is runnable, and the
\* launched goroutines when one of them is.
Fairness == WF_vars(MainNext) /\ WF_vars(TaskNext) /\ WF_vars(Deadlock)

\* One call of runBenchmark under fair scheduling.
FairSpec == RunInit /\ [][Next]_vars /\ Fairness

\* ============================================================ properties
\* The request a WorkResult or a trace belongs to ("Request %d" in each line).
NameOf(output) == output[1].name

\* The phases a trace records, in order: the kind of each "+" line.
RECURSIVE Phases(_)
Phases(sb) ==
    IF sb = <<>> THEN <<>>
    ELSE IF Head(sb).sign = "+" THEN <<Head(sb).kind>> \o Phases(Tail(sb))
    ELSE Phases(Tail(sb))

LinesOf(sb, name) == SelectSeq(sb, LAMBDA l : l.name = name)

\* The traces of the doWork calls that have executed all their phases.
FinishedTraces ==
    {t.w.sb : t \in {u \in tasks : u.w.pc = "ret"}}
    \cup {received[k].output : k \in 1..Len(received)}
    \cup {LinesOf(bw.sb, v) : v \in 0..(bx - 1)}
    \cup (IF bw.pc = "ret" THEN {LinesOf(bw.sb, bx)} ELSE {})

\* Every doWork call in progress or finished, as its work record.
WorkRecords == {t.w : t \in tasks} \cup {bw}

\* The trace so far of every request being executed.
CurrentTraces == {t.w.sb : t \in tasks} \cup {LinesOf(bw.sb, bx)}

\* Goroutines of run r that hold a permit: launched and not yet released,
\* or granted a permit and about to be launched.
Outstanding(r) ==
    Cardinality({t \in tasks : t.run = r}) + (IF pc = "go" /\ idx = r THEN 1 ELSE 0)

\* The concurrent phase of the current run has been set up.
InConcurrentPhase == idx >= 1 /\ Len(sems) = idx

\* The collecting loop of the current run has exited and no later run has
\* reset the collector's variables.
Collected == InConcurrentPhase /\ totalDuration.taken

\* C1: in the concurrent phase, for every limit L >= 1, the number of
\* outstanding permits (Acquire returned, Release not yet called) never
\* exceeds L.
C1_PermitsBounded ==
    \A r \in 1..Len(sems) :
        limits[r] >= 1 => /\ Outstanding(r) <= limits[r]
                          /\ sems[r].cur <= limits[r]

\* The limit is saturated and the main goroutine waits in Acquire.
C1_Witness ==
    /\ pc = "acquire"
    /\ limits[idx] >= 1
    /\ Outstanding(idx) = limits[idx]
    /\ ~CanAcquire(sems[idx])

\* C2: for iterations = n >= 1, when collecting has finished exactly n
\* results have been collected, one per launched request, whatever the
\* completion order; ResponseTimesMs holds one entry for each.
C2_ExactlyNCollected ==
    /\ (Collected /\ iterations >= 1) =>
          /\ Len(responseTimesMs) = iterations
          /\ Len(received) = iterations
          /\ \A v \in 0..(iterations - 1) :
                Cardinality({k \in 1..Len(received) : NameOf(received[k].output) = v}) = 1
          /\ \A k \in 1..Len(received) :
                responseTimesMs[k] = ToMs(received[k].timeTaken)
    /\ \A r \in 1..Len(results) : Len(results[r].ResponseTimesMs) = iterations

\* Two requests were collected in the opposite of their launch order.
C2_Witness ==
    /\ Collected
    /\ iterations = 2
    /\ NameOf(received[1].output) = 1
    /\ NameOf(received[2].output) = 0

ValidRun == InConcurrentPhase /\ limits[idx] >= 1 /\ iterations >= 1

\* C3: for every limit >= 1 and iterations >= 1, under fair scheduling a
\* blocked Acquire is eventually granted and the run reaches the end of its
\* collecting loop.
C3_RunTerminates ==
    /\ (ValidRun /\ pc = "acquire") ~> (pc = "go")
    /\ (ValidRun /\ pc \in {"acquire", "go", "collect"}) ~> (pc = "return")

\* A run with more requests than permits has returned its result.
C3_Witness ==
    /\ pc = "sweep"
    /\ Len(results) = idx
    /\ idx >= 1
    /\ limits[idx] >= 1
    /\ iterations > limits[idx]

\* C4: `start` holds the concurrent-phase reading before the first request
\* is admitted, and totalDuration is read (and the result built) only after
\* all iterations results have been collected, none being in flight.
C4_MetricsAfterCollection ==
    /\ (InConcurrentPhase /\ Outstanding(idx) > 0) => start = "bench"
    /\ pc = "return" => Collected
    /\ Collected =>
          /\ totalDuration.collected = iterations
          /\ totalDuration.buffered = 0
          /\ Len(chans[idx].buf) = 0
          /\ \A t \in tasks : t.run = idx => t.pc = "release"

\* totalDuration has been read while a goroutine of the run is still alive.
C4_Witness ==
    /\ pc = "return"
    /\ iterations = 2
    /\ \E t \in tasks : t.run = idx

\* The largest elapsed time among the results in sequence rs.
MaxTime(rs) ==
    CHOOSE m \in {rs[k].timeTaken : k \in 1..Len(rs)} :
        \A k \in 1..Len(rs) : rs[k].timeTaken <= m

\* The position of the first result of rs with the largest elapsed time.
FirstMax(rs) ==
    CHOOSE k \in 1..Len(rs) :
        /\ rs[k].timeTaken = MaxTime(rs)
        /\ \A j \in 1..(k - 1) : rs[j].timeTaken < MaxTime(rs)

\* C5: after collection, LongestRequest is the trace of the collected result
\* with the largest elapsed time, and among several such the one received
\* first.
C5_LongestIsFirstMax ==
    (Collected /\ Len(received) >= 1) =>
        /\ longestRequest = received[FirstMax(received)]
        /\ Len(results) = idx =>
              results[idx].LongestRequest = received[FirstMax(received)].output

\* Two results tie for the largest elapsed time; the later-launched request
\* was received first.
C5_Witness ==
    /\ Collected
    /\ Len(results) = idx
    /\ Len(received) = 2
    /\ received[1].timeTaken = received[2].timeTaken
    /\ NameOf(received[1].output) = 1

\* Phases alternate CPU, network, CPU, ..., starting with CPU.
Alternates(ph) ==
    \A k \in 1..Len(ph) : ph[k] = (IF k % 2 = 1 THEN "cpu" ELSE "net")

\* C6: for splits = s >= 1, one doWork call executes exactly 2s+1 phases in
\* strict alternation CPU, network, ..., CPU: s+1 CPU slices, s network
\* slices.
C6_PhasesAlternate ==
    splits >= 1 =>
        /\ \A sb \in FinishedTraces :
              LET ph == Phases(sb) IN
              /\ Len(ph) = 2 * splits + 1
              /\ Alternates(ph)
              /\ Len(SelectSeq(ph, LAMBDA p : p = "cpu")) = splits + 1
              /\ Len(SelectSeq(ph, LAMBDA p : p = "net")) = splits
        /\ \A sb \in CurrentTraces :
              Alternates(Phases(sb)) /\ Len(Phases(sb)) <= 2 * splits + 1

\* A request with a network phase has finished doWork.
C6_Witness ==
    /\ splits >= 1
    /\ \E t \in tasks : t.pc = "send" /\ Len(Phases(t.w.sb)) = 3

\* C7: for splits = 0, doWork executes exactly one CPU phase of the whole
\* WorkTime, no network phase, and never divides by splits.
C7_NoSplits ==
    splits = 0 =>
        /\ \A w \in WorkRecords : w.pc \notin {"net", "panic"}
        /\ \A sb \in FinishedTraces :
              sb = <<Line(NameOf(sb), "cpu", "+", WorkTime),
                     Line(NameOf(sb), "cpu", "-", WorkTime)>>

\* A request without network phase has finished doWork.
C7_Witness ==
    /\ splits = 0
    /\ \E t \in tasks : t.pc = "send" /\ t.timeTaken >= WorkTime

\* C8: the sweep runs the limits one after the other in the order given:
\* the i-th result is the result for the i-th limit, a run starts only after
\* the one before has returned, and no request of one run executes while a
\* request of another run does.
C8_SweepSequential ==
    /\ Len(results) <= idx
    /\ idx <= Len(results) + 1
    /\ \A i \in 1..Len(results) : results[i].NumCoroutines = limits[i]
    /\ pc \in {"baseline", "bwork", "acquire", "go", "collect", "return"} =>
          Len(results) = idx - 1
    /\ plotted \in {<<>>, results}
    /\ \A t \in tasks : t.run # idx => t.pc = "release"

\* The second run executes a baseline request while a goroutine of the
\* first run has not ended yet.
C8_Witness ==
    /\ idx = 2
    /\ pc = "bwork"
    /\ Len(results) = 1
    /\ \E t \in tasks : t.run = 1

\* The request names in trace sb never decrease: requests do not interleave.
InOrder(sb) == \A k \in 1..(Len(sb) - 1) : sb[k].name <= sb[k + 1].name

\* C9: the baseline requests execute strictly one after another, and no
\* concurrent-phase request is admitted before the last baseline request
\* has finished.
C9_BaselineSerial ==
    /\ InOrder(bw.sb)
    /\ pc \in {"baseline", "bwork"} =>
          /\ Len(sems) = idx - 1
          /\ \A t \in tasks : t.run # idx
          /\ bw.pc \in {"none", "cpu0"} =>
                \A v \in 0..(bx - 1) :
                    Len(Phases(LinesOf(bw.sb, v))) = 2 * splits + 1
    /\ InConcurrentPhase =>
          /\ bx = IF baselineIterations > 0 THEN baselineIterations ELSE 0
          /\ bw.pc = "none" \/ baselineIterations <= 0
          /\ \A v \in 0..(baselineIterations - 1) :
                Len(Phases(LinesOf(bw.sb, v))) = 2 * splits + 1

\* A concurrent-phase request runs after a baseline of two requests.
C9_Witness ==
    /\ baselineIterations = 2
    /\ \E t \in tasks : t.run = idx /\ t.pc = "work"

\* C10 (as stated): a run with a valid limit and a non-positive iterations
\* or baselineIterations launches no request, produces no BenchmarkResult
\* and does not block.
C10_InvalidCountsRejected ==
    (limits[1] >= 1 /\ (iterations <= 0 \/ baselineIterations <= 0)) =>
        /\ tasks = {}
        /\ Len(results) = 0
        /\ ~(InConcurrentPhase /\ MainBlocked)
        /\ pc # "fatal"

\* C11 (as stated): a run with concurrency limit 0 (and valid counts) fails
\* before its first permit acquisition; it never waits in Acquire and is
\* never ended by the runtime's deadlock abort.
C11_ZeroLimitRejected ==
    (idx >= 1 /\ limits[idx] = 0 /\ iterations >= 1 /\ baselineIterations >= 1) =>
        /\ ~(InConcurrentPhase /\ pc = "acquire")
        /\ pc # "fatal"

\* ------------------------------------------------------------ percentile claims
Answered == query.asked /\ answer.given

\* C12 (as stated): a percentile asked of an empty latency list gives its
\* caller an error outcome, not a value.
C12_EmptyIsError ==
    (Answered /\ query.b.ResponseTimesMs = <<>>) => answer.err # "nil"

\* The smallest and the largest entry of a non-empty latency list.
MinOf(rt) == CHOOSE v \in {rt[k] : k \in 1..Len(rt)} :
                 \A k \in 1..Len(rt) : v.num <= rt[k].num
MaxOf(rt) == CHOOSE v \in {rt[k] : k \in 1..Len(rt)} :
                 \A k \in 1..Len(rt) : v.num >= rt[k].num

\* C15 (as stated): of a non-empty latency list, percentile 0 is the minimum
\* and percentile 100 is the maximum.
C15_EndsAreMinMax ==
    (Answered /\ query.b.ResponseTimesMs # <<>>) =>
        /\ query.pct = 0 => answer.val = MinOf(query.b.ResponseTimesMs)
        /\ query.pct = 100 => answer.val = MaxOf(query.b.ResponseTimesMs)

\* The half of C15 the code keeps: percentile 100 is the maximum.
C15_HundredIsMax ==
    (Answered /\ query.b.ResponseTimesMs # <<>> /\ query.pct = 100) =>
        answer.val = MaxOf(query.b.ResponseTimesMs)

\* ------------------------------------------------------------ failure claims
\* The launch loop of the current run has not admitted every request: main
\* is at or inside sem.Acquire, or between Acquire and the go statement.
Admitting == InConcurrentPhase /\ x < iterations

AcquireFailed == pc = "fatal" /\ Admitting /\ iterations >= 1 /\ baselineIterations >= 1

C14_NothingAfterFailure ==
    AcquireFailed =>
        /\ \A t \in tasks : t.run # idx
        /\ Len(results) = idx - 1
        /\ Len(sems) = idx
        /\ plotted = <<>>

\* ------------------------------------------------------------ channel and permit claims
\* The goroutines of run r, and those that have not sent their result yet.
TasksOf(r) == {t \in tasks : t.run = r}
Unsent(r) == {t \in TasksOf(r) : t.pc \in {"work", "send"}}

\* The process was ended by a panic of the concurrent phase: a send on a
\* closed channel, a second close, or a release of a permit not held.
PhasePanic == pc = "panic" /\ iterations >= 0

\* C16: the channel of a run is closed only by the collector's n-th receive:
\* when it is closed exactly n results have been received and every goroutine
\* of the run has sent, so no send meets a closed channel and no close meets
\* a closed channel (either would panic).
C16_ClosedOnceAfterN ==
    /\ \A r \in 1..Len(chans) :
           chans[r].closed =>
               /\ Unsent(r) = {}
               /\ chans[r].buf = <<>>
               /\ r = idx => Len(received) = iterations
               /\ r < idx => Len(results[r].ResponseTimesMs) = iterations
    /\ ~PhasePanic

\* The channel of a run of two concurrent requests has been closed.
C16_Witness ==
    /\ InConcurrentPhase
    /\ chans[idx].closed
    /\ iterations = 2
    /\ limits[idx] >= 2
    /\ Len(received) = 2

\* C17: every launched goroutine sends one result and then releases one
\* permit: the results sent are as many as the goroutines past their send,
\* the semaphore's count is the number of goroutines that have not released
\* (never below 0, so Release never panics), and it is 0 once all launched
\* goroutines have ended.
C17_OneSendOneRelease ==
    /\ \A r \in 1..Len(sems) :
           /\ sems[r].cur >= 0
           /\ sems[r].cur = Outstanding(r)
           /\ \A t \in TasksOf(r) : t.pc = "release" => sems[r].cur >= 1
           /\ (TasksOf(r) = {} /\ ~(r = idx /\ pc = "go")) => sems[r].cur = 0
    /\ InConcurrentPhase =>
           Len(chans[idx].buf) + Len(received) = x - Cardinality(Unsent(idx))
    /\ ~PhasePanic

\* Two goroutines were launched together, both have sent and released.
C17_Witness ==
    /\ InConcurrentPhase
    /\ limits[idx] >= 2
    /\ x = 2
    /\ TasksOf(idx) = {}
    /\ sems[idx].cur = 0
    /\ Len(chans[idx].buf) + Len(received) = 2

\* C18: the channel never buffers more than its capacity n, and a goroutine
\* about to send always finds room in an open channel: its send does not
\* block, also while the collector has not started to receive.
C18_SendNeverBlocks ==
    \A r \in 1..Len(chans) :
        /\ Len(chans[r].buf) <= chans[r].cap
        /\ chans[r].cap = iterations
        /\ \A t \in TasksOf(r) :
               t.pc = "send" => /\ Len(chans[r].buf) < chans[r].cap
                                /\ ~chans[r].closed

\* Main waits for a permit, the collector has not started; a goroutine has
\* sent its result into the buffer and still holds its permit.
C18_Witness ==
    /\ pc = "acquire"
    /\ ~CanAcquire(sems[idx])
    /\ Len(chans[idx].buf) >= 1
    /\ \E t \in TasksOf(idx) : t.pc = "release"

\* C19 (as stated): when runBenchmark returns, no goroutine of the run is
\* left and the semaphore's count is 0.
C19_AllReleasedAtReturn ==
    (InConcurrentPhase /\ pc = "return") =>
        /\ TasksOf(idx) = {}
        /\ sems[idx].cur = 0

\* C19 (amended): when runBenchmark returns, and ever after, every goroutine
\* of the run has sent its result; those still alive are about to call
\* sem.Release, and the semaphore's count is their number.
C19_AllSentAtReturn ==
    \A r \in 1..Len(sems) :
        (r < idx \/ (r = idx /\ pc = "return")) =>
            /\ Unsent(r) = {}
            /\ sems[r].cur = Cardinality(TasksOf(r))
            /\ sems[r].cur <= limits[r]

\* runBenchmark returns while two goroutines have not released yet.
C19_Witness ==
    /\ InConcurrentPhase
    /\ pc = "return"
    /\ Cardinality(TasksOf(idx)) = 2
    /\ sems[idx].cur = 2

====
